---------------------------- MODULE Spec2Model ----------------------------
(***************************************************************************)
(* Model of the domain discovery and crawl subsystem:                      *)
(*   services_scraper.py      WebScraper, scrape_competitor_pages          *)
(*   services_serp_client.py  SERPClient                                   *)
(*   models_db.py             APICache, cleanup_expired_data               *)
(*   deps.py                  generate_cache_key                           *)
(*                                                                         *)
(* Both services run on one asyncio event loop: code between two awaits is *)
(* atomic, so every action below is one stretch of code from one           *)
(* suspension point (await) to the next.                                   *)
(*                                                                         *)
(* Spec            the crawler (time unit: one second)                     *)
(* SpecMixed       one crawl, every outcome of a GET, a malformed url      *)
(* SpecSequential  one caller awaiting scrape_url for two urls in turn     *)
(* SpecLive        one crawl under the scheduling of the event loop        *)
(* SpecSerp        the SERP client and its cache (time unit: one hour)     *)
(* SpecKey         the cache keys of discover requests                     *)
(*                                                                         *)
(* The model describes the classes as their methods are written.  Two      *)
(* things outside the methods are taken as given: services_scraper.py      *)
(* imports "robots" from urllib.parse (line 4), a name that module does    *)
(* not have, and both services read settings that config.py does not       *)
(* define (MAX_CONCURRENT_REQUESTS, REQUESTS_PER_SECOND, SERPAPI_KEY).     *)
(* RobotFileParser is the class of the Python standard library.            *)
(***************************************************************************)
EXTENDS Integers, Sequences, FiniteSets, TLC

VARIABLES
    now,                \* the wall clock (time.time() / datetime.utcnow())
    \* ---- crawler: one entry per crawl invocation i
    ipc,                \* position of invocation i: "idle", "running", "done"
    entry,              \* entry point the invocation came through
    owns_session,       \* invocation entered "async with self" in scrape_domain_pages
    urls,               \* the urls argument of the invocation
    sem,                \* value of the invocation's asyncio.Semaphore
    tpc,                \* position of task k of invocation i
    wake_at,            \* deadline of the task's asyncio.sleep
    page,               \* the ScrapedPage returned by the task's scrape_url
    page_gets,          \* number of session.get(url) calls the task issued
    crawl_result,       \* the dict returned by _scrape_pages_internal
    \* ---- crawler: one entry per WebScraper instance s
    session,            \* WebScraper.session: "none", "open", "closed"
    robots_cache,       \* WebScraper.robots_cache
    domain_delays,      \* WebScraper.domain_delays
    last_request_time,  \* WebScraper.last_request_time
    \* ---- SERP client
    providers,          \* SERPClient.providers
    api_cache,          \* rows of table api_cache, by cache_key
    cpc,                \* position of discover call c
    cdomain,            \* the domain argument of call c
    cidx,               \* index into providers of the provider being awaited
    cdata,              \* the data a provider returned to call c
    tried,              \* outcomes of the providers call c has awaited, in order
    cache_error,        \* the cache failures call c met, in order
    accepted_at,        \* time at which call c accepted a provider result
    cresult,            \* what call c returned to its caller
    \* ---- discover requests
    request,            \* what request n asks for: domain, country, language, location
    request_key,        \* the cache_key get_domain_keywords computed for request n
    \* ---- configuration
    settings            \* the credentials config.Settings read from the environment

crawlVars == <<ipc, entry, owns_session, urls, sem, tpc, wake_at, page, page_gets,
               crawl_result, session, robots_cache, domain_delays, last_request_time>>
serpVars == <<providers, api_cache, cpc, cdomain, cidx, cdata, tried, cache_error,
              accepted_at, cresult>>
keyVars == <<request, request_key>>
vars == <<now, crawlVars, serpVars, keyVars, settings>>

-----------------------------------------------------------------------------
(* Bounds of the model *)

NumInvocations == 2     \* crawl invocations
MaxUrls == 4            \* longest candidate url list of the first invocation
MaxUrlsLater == 1       \* longest candidate url list of the later invocations
MaxTime == 2            \* last second of the crawler's clock
NumCalls == 3           \* get_domain_keywords calls
NumRequests == 2        \* discover requests whose cache keys are compared
HourStep == 24          \* hours between two readings of the SERP client's clock
MaxDbFaults == 1        \* calls that find the database unavailable
MaxHours == 48          \* last hour of the SERP client's clock

(* Configuration: config.Settings reads CACHE_EXPIRY_HOURS and              *)
(* MAX_PAGES_PER_DOMAIN from the environment; services_scraper.py also     *)
(* reads settings.MAX_CONCURRENT_REQUESTS and settings.REQUESTS_PER_SECOND, *)
(* which config.py does not define: they are taken as configured, with the *)
(* values of the documented scenario (3 pages, 2 concurrent requests).     *)

CACHE_EXPIRY_HOURS == 24
MAX_PAGES_PER_DOMAIN == 3
MAX_CONCURRENT_REQUESTS == 2
REQUESTS_PER_SECOND == 1

Min(a, b) == IF a < b THEN a ELSE b

Invocations == 1..NumInvocations
Slots == 1..MaxUrls
Scrapers == 0..NumInvocations   \* 0 is the module-level "scraper" instance
Domains == {"a.com", "b.com"}

None == "None"

-----------------------------------------------------------------------------
(* Inputs: urls and what the hosts serve *)

Url(d, p) == [netloc |-> d, path |-> p]

UrlPool == << Url("a.com", "/1"), Url("a.com", "/private"), Url("a.com", "/2"),
              Url("b.com", "/1") >>

UrlAt(n) == UrlPool[((n - 1) % Len(UrlPool)) + 1]

\* A url urlparse() rejects ("http://[": ValueError, Invalid IPv6 URL).
BadUrl == Url(None, "[")

\* urlparse(url) returns.
Parseable(u) == u.netloc # None

\* The url lists an invocation may be given: the first invocation a prefix of
\* the pool, a later one a short list that starts at either host or holds the
\* malformed url.
CandidateLists(i) ==
    { [k \in 1..n |-> UrlAt(k + off)] :
        n \in 0..(IF i = 1 THEN MaxUrls ELSE MaxUrlsLater),
        off \in (IF i = 1 THEN {0} ELSE {0, 3}) }
    \cup (IF i = 1 THEN {} ELSE { << BadUrl >> })

\* The url lists of the mixed scenario: two urls of one host ahead of a url of
\* the other host, and a malformed url between two good ones.
MixedLists ==
    { << Url("a.com", "/1"), Url("a.com", "/2"), Url("b.com", "/1") >>,
      << Url("a.com", "/1"), BadUrl, Url("b.com", "/1") >> }

\* The robots.txt each host serves: its Disallow paths for every user agent
\* and the Crawl-delay line (in seconds) it has or has not for the crawler.
RobotsTxt(d) ==
    IF d = "a.com" THEN [disallow |-> {"/private"}, has_delay |-> TRUE, crawl_delay |-> 2]
                   ELSE [disallow |-> {}, has_delay |-> FALSE, crawl_delay |-> 0]


\* What a host answers to "GET /robots.txt".  services_scraper.py fetches the
\* file twice: with aiohttp (session.get, line 56) and, on a 200, again with
\* urllib inside RobotFileParser.read() (line 61).
RobotsFetchFailures == {"conn_error", "timeout", "non_200", "text_error", "read_url_error"}
RobotsReadOutcomes == {"read_ok", "read_401_403", "read_4xx", "read_5xx"}
RobotsOutcomes == RobotsFetchFailures \cup RobotsReadOutcomes

\* What the GET of a page can end in: a 200 with text, a 200 without any, a
\* 200 whose html BeautifulSoup fails on, a 404, a connection error, or the
\* session's total timeout (asyncio.TimeoutError, whose str() is empty).
AllPageOutcomes == {"ok", "empty", "parse_error", "http_error", "exception", "timeout"}

\* The answer of each host of the crawl scenario to the GET of a page.
HostAnswer(u) ==
    CASE u.path = "/1" -> "ok"
      [] u.path = "/2" -> "empty"
      [] OTHER         -> "http_error"

\* In the crawl scenario a GET ends in the host's answer or in a connection
\* error.
PageOutcomes(u) == {HostAnswer(u), "exception"}

-----------------------------------------------------------------------------
(* Dictionaries *)

Put(f, key, val) == [x \in (DOMAIN f) \cup {key} |-> IF x = key THEN val ELSE f[x]]

EmptyDict == [x \in {} |-> None]

-----------------------------------------------------------------------------
(* urllib.robotparser.RobotFileParser, as far as the scraper uses it *)

\* RobotFileParser(): nothing read yet.
RobotFileParser ==
    [disallow_all |-> FALSE, allow_all |-> FALSE, last_checked |-> FALSE, disallow |-> {}]

\* RobotFileParser.read(): urlopen(robots_url), then parse() on success.
\* HTTPError 401/403 sets disallow_all, any other 4xx sets allow_all, any other
\* HTTPError leaves the parser as it was; parse() records last_checked.
rp_read(rp, d, outcome) ==
    CASE outcome = "read_401_403" -> [rp EXCEPT !.disallow_all = TRUE]
      [] outcome = "read_4xx"     -> [rp EXCEPT !.allow_all = TRUE]
      [] outcome = "read_5xx"     -> rp
      [] OTHER                    -> [rp EXCEPT !.last_checked = TRUE,
                                                !.disallow = RobotsTxt(d).disallow]

\* RobotFileParser.can_fetch(useragent, url)
rp_can_fetch(rp, url) ==
    IF rp.disallow_all THEN FALSE
    ELSE IF rp.allow_all THEN TRUE
    ELSE IF ~rp.last_checked THEN FALSE
    ELSE url.path \notin rp.disallow

-----------------------------------------------------------------------------
(* WebScraper *)

\* The WebScraper an invocation runs on: the module-level instance for
\* scraper.scrape_domain_pages, an instance of its own otherwise.
ScraperOf(i) == IF entry[i] = "scrape_domain_pages" THEN 0 ELSE i

\* The tasks an entry point lets run at a time: _scrape_pages_internal gives
\* its tasks a semaphore; a caller that awaits scraper.scrape_url(url) for one
\* url after the other has one call running.
Capacity(e) == IF e = "scrape_url" THEN 1 ELSE MAX_CONCURRENT_REQUESTS

\* A crawl that takes every url it is given.
SelectUrls_All(us) == us

\* urls[:settings.MAX_PAGES_PER_DOMAIN]
SelectUrls(us) == SubSeq(us, 1, Min(Len(us), MAX_PAGES_PER_DOMAIN))

Selected(i) == SelectUrls(urls[i])

Tasks(i) == 1..Len(Selected(i))

\* _can_fetch that ignores the parser.
can_fetch_Permissive(rp, url) == TRUE

\* WebScraper._can_fetch (robots_parser is never None while a session exists)
can_fetch(rp, url) == rp_can_fetch(rp, url)

\* The parser _get_robots_txt builds and caches on a cache miss, by outcome.
get_robots_txt(d, outcome) ==
    IF outcome \in RobotsFetchFailures
    THEN RobotFileParser
    ELSE rp_read(RobotFileParser, d, outcome)

\* The crawl-delay loop of _get_robots_txt: it runs only when both fetches
\* returned without raising.
parse_crawl_delay(dd, d, outcome) ==
    IF outcome \in RobotsReadOutcomes /\ RobotsTxt(d).has_delay
    THEN Put(dd, d, RobotsTxt(d).crawl_delay)
    ELSE dd

DefaultDelay == 1 \div REQUESTS_PER_SECOND

\* A delay that ignores the crawl-delay of robots.txt.
EffectiveDelay_DefaultOnly(dd, d) == DefaultDelay

\* delay = self.domain_delays.get(domain, 1.0 / settings.REQUESTS_PER_SECOND)
EffectiveDelay(dd, d) == IF d \in DOMAIN dd THEN dd[d] ELSE DefaultDelay

\* A rate limiter that never waits.
SleepTime_NoWait(lrt, dd, d) == 0

\* sleep_time of _respect_rate_limit; 0 when the turn is granted at once.
SleepTime(lrt, dd, d) ==
    IF d \in DOMAIN lrt /\ now - lrt[d] < EffectiveDelay(dd, d)
    THEN EffectiveDelay(dd, d) - (now - lrt[d])
    ELSE 0

\* What _extract_content finds in the html a host serves for the url u: the
\* text of the main content, and the meta keywords followed by the headings
\* (a heading may repeat a meta keyword, and pages share keywords).
PageContent(u) == "text of " \o u.netloc \o u.path

PageKeywords(u) ==
    IF u.netloc = "a.com" THEN << "seo", "tools", "seo" >> ELSE << "tools", "pricing" >>

\* The meta keywords of a page whose body has no text.
MetaKeywords(u) == << "hidden" >>

\* ScrapedPage(url, title, meta_description, content, keywords, status_code,
\* error), with the "raised" mark of an entry that is an exception instead.
ScrapedPage(u, content, keywords, status_code, error) ==
    [url |-> u, content |-> content, keywords |-> keywords, status_code |-> status_code,
     error |-> error, raised |-> FALSE]

\* A task's entry in the list asyncio.gather returns: the ScrapedPage the
\* task returned, or (raised) the exception that left scrape_url.
NoPage == ScrapedPage(Url(None, None), "", << >>, -1, None)

BlockedPage(u) == ScrapedPage(u, "", << >>, 403, "Blocked by robots.txt")

\* The page of the except branch: status 0, error=str(e).
ExceptionPage(u) == ScrapedPage(u, "", << >>, 0, "exception")

\* "domain = urlparse(url).netloc" stands before the try of scrape_url: the
\* ValueError leaves scrape_url and becomes the task's entry in the list.
RaisedResult(u) ==
    [ScrapedPage(u, "", << >>, -1, "Invalid IPv6 URL") EXCEPT !.raised = TRUE]

\* The ScrapedPage scrape_url builds from the response to session.get(url).
\* _extract_content catches what BeautifulSoup raises and returns empty
\* fields; str(asyncio.TimeoutError()) is the empty string.
ResponsePage(u, outcome) ==
    CASE outcome = "ok"          -> ScrapedPage(u, PageContent(u), PageKeywords(u), 200, None)
      [] outcome = "empty"       -> ScrapedPage(u, "", MetaKeywords(u), 200, None)
      [] outcome = "parse_error" -> ScrapedPage(u, "", << >>, 200, None)
      [] outcome = "http_error"  -> ScrapedPage(u, "", << >>, 404, "HTTP 404")
      [] outcome = "timeout"     -> ScrapedPage(u, "", << >>, 0, "")
      [] OTHER                   -> ExceptionPage(u)

\* scrape_url from "self.session.get(url)" on: a closed session raises at
\* once, an open one suspends the task until the response.
IssueGet(s, u, lrt) ==
    IF session[s] = "open"
    THEN [tpc |-> "get", wake_at |-> 0, page |-> NoPage, gets |-> 1, lrt |-> lrt]
    ELSE [tpc |-> "done", wake_at |-> 0, page |-> ExceptionPage(u), gets |-> 0, lrt |-> lrt]

\* A scrape_url that takes its turn in the rate limiter before it looks at
\* the robots policy.
AfterRobots_LimitsFirst(s, u, rp, dd) ==
    LET d == u.netloc
        lrt == last_request_time[s]
        sleep_time == SleepTime(lrt, dd, d)
    IN  IF sleep_time > 0
        THEN [tpc |-> "sleep", wake_at |-> now + sleep_time, page |-> NoPage, gets |-> 0, lrt |-> lrt]
        ELSE IF ~can_fetch(rp, u)
        THEN [tpc |-> "done", wake_at |-> 0, page |-> BlockedPage(u), gets |-> 0,
              lrt |-> Put(lrt, d, now)]
        ELSE IssueGet(s, u, Put(lrt, d, now))

\* scrape_url from the robots check to its next suspension point, given the
\* parser rp and the delays dd that _get_robots_txt left behind.
AfterRobots(s, u, rp, dd) ==
    LET d == u.netloc
        lrt == last_request_time[s]
        sleep_time == SleepTime(lrt, dd, d)
    IN  IF ~can_fetch(rp, u)
        THEN [tpc |-> "done", wake_at |-> 0, page |-> BlockedPage(u), gets |-> 0, lrt |-> lrt]
        ELSE IF sleep_time > 0
        THEN [tpc |-> "sleep", wake_at |-> now + sleep_time, page |-> NoPage, gets |-> 0, lrt |-> lrt]
        ELSE IssueGet(s, u, Put(lrt, d, now))

\* A task that keeps its semaphore slot when it returns.
Advance_NoRelease(i, k, r) ==
    /\ tpc' = [tpc EXCEPT ![i][k] = r.tpc]
    /\ wake_at' = [wake_at EXCEPT ![i][k] = r.wake_at]
    /\ page' = [page EXCEPT ![i][k] = r.page]
    /\ page_gets' = [page_gets EXCEPT ![i][k] = @ + r.gets]
    /\ last_request_time' = [last_request_time EXCEPT ![ScraperOf(i)] = r.lrt]
    /\ sem' = sem

\* Writes the outcome r of a stretch of scrape_url into task k of invocation
\* i; leaving scrape_url releases the semaphore ("async with semaphore").
Advance(i, k, r) ==
    /\ tpc' = [tpc EXCEPT ![i][k] = r.tpc]
    /\ wake_at' = [wake_at EXCEPT ![i][k] = r.wake_at]
    /\ page' = [page EXCEPT ![i][k] = r.page]
    /\ page_gets' = [page_gets EXCEPT ![i][k] = @ + r.gets]
    /\ last_request_time' = [last_request_time EXCEPT ![ScraperOf(i)] = r.lrt]
    /\ sem' = [sem EXCEPT ![i] = IF r.tpc = "done" THEN @ + 1 ELSE @]


-----------------------------------------------------------------------------
(* Crawler: initial state and actions *)

InitCrawl ==
    /\ ipc = [i \in Invocations |-> "idle"]
    /\ entry = [i \in Invocations |-> None]
    /\ owns_session = [i \in Invocations |-> FALSE]
    /\ urls = [i \in Invocations |-> << >>]
    /\ sem = [i \in Invocations |-> 0]
    /\ tpc = [i \in Invocations |-> [k \in Slots |-> "none"]]
    /\ wake_at = [i \in Invocations |-> [k \in Slots |-> 0]]
    /\ page = [i \in Invocations |-> [k \in Slots |-> NoPage]]
    /\ page_gets = [i \in Invocations |-> [k \in Slots |-> 0]]
    /\ crawl_result = [i \in Invocations |-> EmptyDict]
    /\ session = [s \in Scrapers |-> "none"]
    /\ robots_cache = [s \in Scrapers |-> EmptyDict]
    /\ domain_delays = [s \in Scrapers |-> EmptyDict]
    /\ last_request_time = [s \in Scrapers |-> EmptyDict]

\* scrape_competitor_pages(domain, urls) (a fresh WebScraper, "async with")
\* or scraper.scrape_domain_pages(domain, urls) on the module-level instance,
\* up to "await asyncio.gather(*tasks)": the urls are cut to
\* MAX_PAGES_PER_DOMAIN, the semaphore is created and one task per url is
\* queued on it.  The entry "scrape_url" is a caller that opens a WebScraper
\* ("async with") and awaits scrape_url(url) for each url in turn.
StartCrawl(i, e, us) ==
    LET s == IF e = "scrape_domain_pages" THEN 0 ELSE i
        opens == e # "scrape_domain_pages" \/ session[s] = "none"
    IN  /\ ipc[i] = "idle"
        /\ \A j \in 1..(i - 1) : ipc[j] # "idle"
        /\ ipc' = [ipc EXCEPT ![i] = "running"]
        /\ entry' = [entry EXCEPT ![i] = e]
        /\ owns_session' = [owns_session EXCEPT ![i] = opens]
        /\ session' = [session EXCEPT ![s] = IF opens THEN "open" ELSE @]
        /\ urls' = [urls EXCEPT ![i] = us]
        /\ sem' = [sem EXCEPT ![i] = Capacity(e)]
        /\ tpc' = [tpc EXCEPT ![i] =
                      [k \in Slots |-> IF k <= Len(SelectUrls(us)) THEN "queued" ELSE "none"]]
        /\ UNCHANGED <<now, wake_at, page, page_gets, crawl_result, robots_cache,
                       domain_delays, last_request_time, serpVars, keyVars, settings>>

\* The semaphore admits waiters in the order they queued (task order).
NextQueued(i, k) ==
    /\ tpc[i][k] = "queued"
    /\ \A j \in 1..(k - 1) : tpc[i][j] # "queued"

\* A semaphore that never blocks.
SemaphoreFree_Always(i) == TRUE

SemaphoreFree(i) == sem[i] > 0

\* A semaphore that is not released when scrape_url raises.
Acquire_RaiseKeepsSlot(i, k) ==
    LET s == ScraperOf(i)
        u == Selected(i)[k]
        d == u.netloc
    IN  /\ ipc[i] = "running"
        /\ NextQueued(i, k)
        /\ SemaphoreFree(i)
        /\ IF ~Parseable(u)
           THEN /\ tpc' = [tpc EXCEPT ![i][k] = "done"]
                /\ page' = [page EXCEPT ![i][k] = RaisedResult(u)]
                /\ sem' = [sem EXCEPT ![i] = @ - 1]
                /\ UNCHANGED <<wake_at, page_gets, last_request_time>>
           ELSE IF d \in DOMAIN robots_cache[s]
           THEN LET r == AfterRobots(s, u, robots_cache[s][d], domain_delays[s])
                IN  /\ tpc' = [tpc EXCEPT ![i][k] = r.tpc]
                    /\ wake_at' = [wake_at EXCEPT ![i][k] = r.wake_at]
                    /\ page' = [page EXCEPT ![i][k] = r.page]
                    /\ page_gets' = [page_gets EXCEPT ![i][k] = @ + r.gets]
                    /\ last_request_time' = [last_request_time EXCEPT ![s] = r.lrt]
                    /\ sem' = [sem EXCEPT ![i] = IF r.tpc = "done" THEN @ ELSE @ - 1]
           ELSE /\ tpc' = [tpc EXCEPT ![i][k] = "robots"]
                /\ sem' = [sem EXCEPT ![i] = @ - 1]
                /\ UNCHANGED <<wake_at, page, page_gets, last_request_time>>
        /\ UNCHANGED <<now, ipc, entry, owns_session, urls, crawl_result, session,
                       robots_cache, domain_delays, serpVars, keyVars, settings>>

\* scrape_with_semaphore: "async with semaphore" admits the task, scrape_url
\* starts; urlparse raises and the task ends, or _get_robots_txt either finds
\* the domain in robots_cache and scrape_url runs on, or issues the GET of
\* robots.txt and suspends.
Acquire(i, k) ==
    LET s == ScraperOf(i)
        u == Selected(i)[k]
        d == u.netloc
    IN  /\ ipc[i] = "running"
        /\ NextQueued(i, k)
        /\ SemaphoreFree(i)
        /\ IF ~Parseable(u)
           THEN /\ tpc' = [tpc EXCEPT ![i][k] = "done"]
                /\ page' = [page EXCEPT ![i][k] = RaisedResult(u)]
                /\ UNCHANGED <<wake_at, page_gets, last_request_time, sem>>
           ELSE IF d \in DOMAIN robots_cache[s]
           THEN LET r == AfterRobots(s, u, robots_cache[s][d], domain_delays[s])
                IN  /\ tpc' = [tpc EXCEPT ![i][k] = r.tpc]
                    /\ wake_at' = [wake_at EXCEPT ![i][k] = r.wake_at]
                    /\ page' = [page EXCEPT ![i][k] = r.page]
                    /\ page_gets' = [page_gets EXCEPT ![i][k] = @ + r.gets]
                    /\ last_request_time' = [last_request_time EXCEPT ![s] = r.lrt]
                    /\ sem' = [sem EXCEPT ![i] = IF r.tpc = "done" THEN @ ELSE @ - 1]
           ELSE /\ tpc' = [tpc EXCEPT ![i][k] = "robots"]
                /\ sem' = [sem EXCEPT ![i] = @ - 1]
                /\ UNCHANGED <<wake_at, page, page_gets, last_request_time>>
        /\ UNCHANGED <<now, ipc, entry, owns_session, urls, crawl_result, session,
                       robots_cache, domain_delays, serpVars, keyVars, settings>>

\* _get_robots_txt from the response to the GET of robots.txt on (a closed
\* session raises instead): the parser is built and cached, the crawl-delay
\* recorded, and scrape_url runs on to its next suspension point.
RobotsResponse(i, k, outcome) ==
    LET s == ScraperOf(i)
        u == Selected(i)[k]
        d == u.netloc
        rp == get_robots_txt(d, outcome)
        dd == parse_crawl_delay(domain_delays[s], d, outcome)
    IN  /\ tpc[i][k] = "robots"
        /\ session[s] = "closed" => outcome = "conn_error"
        /\ robots_cache' = [robots_cache EXCEPT ![s] = Put(@, d, rp)]
        /\ domain_delays' = [domain_delays EXCEPT ![s] = dd]
        /\ Advance(i, k, AfterRobots(s, u, rp, dd))
        /\ UNCHANGED <<now, ipc, entry, owns_session, urls, crawl_result, session,
                       serpVars, keyVars, settings>>

\* A rate limiter that records no timestamp after it has slept.
Wake_NoStamp(i, k) ==
    LET s == ScraperOf(i)
        u == Selected(i)[k]
    IN  /\ tpc[i][k] = "sleep"
        /\ now >= wake_at[i][k]
        /\ Advance(i, k, [IssueGet(s, u, last_request_time[s])
                             EXCEPT !.wake_at = wake_at[i][k]])
        /\ UNCHANGED <<now, ipc, entry, owns_session, urls, crawl_result, session,
                       robots_cache, domain_delays, serpVars, keyVars, settings>>

\* _respect_rate_limit after asyncio.sleep(sleep_time): the turn is recorded
\* at time.time(), then scrape_url issues the GET of the page (the deadline
\* of the sleep stays on record while the GET is in flight).
Wake(i, k) ==
    LET s == ScraperOf(i)
        u == Selected(i)[k]
    IN  /\ tpc[i][k] = "sleep"
        /\ now >= wake_at[i][k]
        /\ Advance(i, k, [IssueGet(s, u, Put(last_request_time[s], u.netloc, now))
                             EXCEPT !.wake_at = wake_at[i][k]])
        /\ UNCHANGED <<now, ipc, entry, owns_session, urls, crawl_result, session,
                       robots_cache, domain_delays, serpVars, keyVars, settings>>

\* scrape_url from the response to the GET of the page to its return.
PageResponse(i, k, outcome) ==
    LET s == ScraperOf(i)
        u == Selected(i)[k]
    IN  /\ tpc[i][k] = "get"
        /\ session[s] = "closed" => outcome = "exception"
        /\ Advance(i, k, [tpc |-> "done", wake_at |-> 0, page |-> ResponsePage(u, outcome),
                          gets |-> 0, lrt |-> last_request_time[s]])
        /\ UNCHANGED <<now, ipc, entry, owns_session, urls, crawl_result, session,
                       robots_cache, domain_delays, serpVars, keyVars, settings>>


\* "isinstance(result, Exception)"
IsException(result) == result.raised

\* A test that looks at the status only.
IsSuccessful_StatusOnly(pg) == ~IsException(pg) /\ pg.status_code = 200

\* A page counts as scraped when "status_code == 200 and result.content".
IsSuccessful(pg) == ~IsException(pg) /\ pg.status_code = 200 /\ pg.content # ""

\* The entries appended to successful_pages / failed_pages by the result loop
\* of _scrape_pages_internal, in the order of the tasks.
RECURSIVE SuccessfulPages(_)
SuccessfulPages(pages) ==
    IF pages = << >> THEN << >>
    ELSE (IF IsSuccessful(Head(pages)) THEN << Head(pages).url >> ELSE << >>)
         \o SuccessfulPages(Tail(pages))

\* str(result) of an exception; of a page "result.error or f'Status
\* {result.status_code}'": an error of None or "" gives way to the status.
FailedError(pg) ==
    IF IsException(pg) THEN pg.error
    ELSE IF pg.error \notin {None, ""} THEN pg.error
    ELSE IF pg.status_code = 200 THEN "Status 200" ELSE "Status 0"

\* A result loop that files a page under failed_pages only when it has an error.
RECURSIVE FailedPages_OnlyErrors(_)
FailedPages_OnlyErrors(pages) ==
    IF pages = << >> THEN << >>
    ELSE (IF Head(pages).error # None
          THEN << [url |-> Head(pages).url, error |-> Head(pages).error] >>
          ELSE << >>)
         \o FailedPages_OnlyErrors(Tail(pages))

RECURSIVE FailedPages(_)
FailedPages(pages) ==
    IF pages = << >> THEN << >>
    ELSE (IF IsSuccessful(Head(pages)) THEN << >>
          ELSE << [url |-> Head(pages).url, error |-> FailedError(Head(pages))] >>)
         \o FailedPages(Tail(pages))

\* all_content: the content of the successful pages, in the order of the tasks.
RECURSIVE AllContent(_)
AllContent(pages) ==
    IF pages = << >> THEN << >>
    ELSE (IF IsSuccessful(Head(pages)) THEN << Head(pages).content >> ELSE << >>)
         \o AllContent(Tail(pages))

\* sep.join(strings)
RECURSIVE Join(_, _)
Join(sep, strings) ==
    IF strings = << >> THEN ""
    ELSE IF Len(strings) = 1 THEN Head(strings)
    ELSE Head(strings) \o sep \o Join(sep, Tail(strings))

\* A keyword set that takes the keywords of every page that came back.
AllKeywords_EveryPage(pages) ==
    UNION { { pages[n].keywords[m] : m \in DOMAIN pages[n].keywords } : n \in DOMAIN pages }

\* all_keywords: the set updated with the keywords of each successful page.
AllKeywords(pages) ==
    UNION { { pages[n].keywords[m] : m \in DOMAIN pages[n].keywords } :
              n \in { x \in DOMAIN pages : IsSuccessful(pages[x]) } }

\* list(a_set): every element once, in an order the caller cannot rely on.
RECURSIVE ListOf(_)
ListOf(S) ==
    IF S = {} THEN << >>
    ELSE LET x == CHOOSE y \in S : TRUE IN << x >> \o ListOf(S \ {x})

\* The dict _scrape_pages_internal returns for the gathered pages.
CrawlResult(pages) ==
    [successful_pages |-> SuccessfulPages(pages),
     failed_pages |-> FailedPages(pages),
     content |-> Join(" ", AllContent(pages)),
     extracted_keywords |-> ListOf(AllKeywords(pages)),
     total_pages_scraped |-> Len(SuccessfulPages(pages))]

\* A gather that gives up at the first task that fails.
GatherReturns_FirstFailure(i) ==
    \/ \A k \in Tasks(i) : tpc[i][k] = "done"
    \/ \E k \in Tasks(i) : tpc[i][k] = "done" /\ ~IsSuccessful(page[i][k])

\* "await asyncio.gather(*tasks, return_exceptions=True)" returns once every
\* task has returned or raised.
GatherReturns(i) == \A k \in Tasks(i) : tpc[i][k] = "done"

\* asyncio.gather returns; the results are partitioned, the dict is
\* returned, and the "async with" that opened the session closes it
\* (__aexit__ leaves self.session set).
Finish(i) ==
    /\ ipc[i] = "running"
    /\ GatherReturns(i)
    /\ ipc' = [ipc EXCEPT ![i] = "done"]
    /\ crawl_result' = [crawl_result EXCEPT ![i] =
                           IF entry[i] = "scrape_url" THEN @
                           ELSE CrawlResult([k \in Tasks(i) |-> page[i][k]])]
    /\ session' = [session EXCEPT ![ScraperOf(i)] = IF owns_session[i] THEN "closed" ELSE @]
    /\ UNCHANGED <<now, entry, owns_session, urls, sem, tpc, wake_at, page, page_gets,
                   robots_cache, domain_delays, last_request_time, serpVars, keyVars, settings>>

\* One second passes.  A task the semaphore can admit runs within the second.
Tick ==
    /\ now < MaxTime
    /\ \A i \in Invocations, k \in Slots : ~(NextQueued(i, k) /\ SemaphoreFree(i))
    /\ now' = now + 1
    /\ UNCHANGED <<crawlVars, serpVars, keyVars, settings>>


\* One second passes while a task waits in asyncio.sleep for a time that has
\* not come; unlike Tick, the clock runs for as long as some task waits.
TickWhileAsleep ==
    /\ \E i \in Invocations, k \in Slots : tpc[i][k] = "sleep" /\ wake_at[i][k] > now
    /\ \A i \in Invocations, k \in Slots : ~(NextQueued(i, k) /\ SemaphoreFree(i))
    /\ now' = now + 1
    /\ UNCHANGED <<crawlVars, serpVars, keyVars, settings>>

-----------------------------------------------------------------------------
(* SERPClient *)

Calls == 1..NumCalls

\* The values a credential of the environment may have: unset, or set.
Credentials == {None, "secret"}

\* What the environment may configure (GOOGLE_CSE_CX may also be set to the
\* empty string).
Environments ==
    [GOOGLE_CSE_API_KEY : Credentials, GOOGLE_CSE_CX : Credentials \cup {""},
     SERPAPI_KEY : Credentials]

NoCredentials == [GOOGLE_CSE_API_KEY |-> None, GOOGLE_CSE_CX |-> None, SERPAPI_KEY |-> None]

\* The truth value Python gives a setting: None and "" are false.
Truthy(v) == v \notin {None, ""}

\* A provider list with the mock generator as its last resort.
BuildProviders_MockLast(has_google_cse, has_serpapi) ==
    (IF has_google_cse THEN << "google_cse" >> ELSE << >>)
    \o (IF has_serpapi THEN << "serpapi" >> ELSE << >>)
    \o << "mock" >>

\* SERPClient.__init__: the providers enabled by the configured credentials.
BuildProviders(has_google_cse, has_serpapi) ==
    LET real == (IF has_google_cse THEN << "google_cse" >> ELSE << >>)
                \o (IF has_serpapi THEN << "serpapi" >> ELSE << >>)
    IN  IF real = << >> THEN << "mock" >> ELSE real

\* What a provider call can end in: _fetch_google_cse and _fetch_serpapi raise
\* (raise_for_status, timeout), or return a dict whose keyword list is empty
\* or not; _fetch_mock_data always returns its five keywords.
ProviderOutcomes(p) ==
    IF p = "mock" THEN {"ok"} ELSE {"throw", "empty", "ok"}

\* The dict a provider returns; "fetch" tells the upstream responses apart.
ProviderData(p, outcome, c) ==
    [provider |-> p, keywords |-> IF outcome = "ok" THEN 5 ELSE 0, fetch |-> c]

NoData == [provider |-> None, keywords |-> 0, fetch |-> 0]

\* An acceptance test that looks at the dict only: "if data".
Accepts_AnyData(data) == TRUE

\* An acceptance test that reads a key the dict never has.
Accepts_WrongKey(data) == FALSE

\* "if data and data.get('keywords')"
Accepts(data) == data.keywords > 0

\* ":".join(str(arg) for arg in args)
RECURSIVE JoinArgs(_)
JoinArgs(args) ==
    IF args = << >> THEN ""
    ELSE IF Len(args) = 1 THEN Head(args)
    ELSE Head(args) \o ":" \o JoinArgs(Tail(args))

\* hashlib.md5(key_string.encode()).hexdigest(): the digest is named by the
\* string it is the digest of (no two strings of the model collide).
md5(key_string) == "md5(" \o key_string \o ")"

\* deps.generate_cache_key(prefix, *args)
generate_cache_key(prefix, args) == md5(prefix \o ":" \o JoinArgs(args))

\* A key that leaves the domain out.
CacheKey_NoDomain(d) == generate_cache_key("domain_keywords", << >>)

\* cache_key = generate_cache_key("domain_keywords", domain)
CacheKey(d) == generate_cache_key("domain_keywords", << d >>)

\* A query that leaves out "AND expires_at > :now".
HasLiveRow_AnyRow(key) == key \in DOMAIN api_cache

\* "SELECT response_data FROM api_cache WHERE cache_key = :key AND
\* expires_at > :now"
HasLiveRow(key) == key \in DOMAIN api_cache /\ api_cache[key].expires_at > now

\* APICache(cache_key, provider, response_data) with its column defaults.
APICache(provider, data) ==
    [provider |-> provider, response_data |-> data,
     expires_at |-> now + CACHE_EXPIRY_HOURS]

\* The requests a caller may have: a domain with the country, the language
\* and the location the analysis is asked for.
Requests ==
    [domain : Domains, country : {"US", "DE"}, language : {"en", "de"},
     location : {None, "Berlin"}]

InitKeys ==
    /\ request \in [1..NumRequests -> Requests]
    /\ request_key = [n \in 1..NumRequests |-> None]

\* The caller of request n calls get_domain_keywords with the one argument
\* the method takes, the domain; the method computes its cache_key.
Discover(n) ==
    /\ request_key[n] = None
    /\ request_key' = [request_key EXCEPT ![n] = CacheKey(request[n].domain)]
    /\ UNCHANGED <<now, crawlVars, serpVars, request, settings>>

InitSerp ==
    /\ settings \in Environments
    /\ providers = BuildProviders(Truthy(settings.GOOGLE_CSE_API_KEY)
                                    /\ Truthy(settings.GOOGLE_CSE_CX),
                                  Truthy(settings.SERPAPI_KEY))
    /\ api_cache = << >>
    /\ cpc = [c \in Calls |-> "idle"]
    /\ cdomain = [c \in Calls |-> None]
    /\ cidx = [c \in Calls |-> 0]
    /\ cdata = [c \in Calls |-> NoData]
    /\ tried = [c \in Calls |-> << >>]
    /\ cache_error = [c \in Calls |-> << >>]
    /\ accepted_at = [c \in Calls |-> -1]
    /\ cresult = [c \in Calls |-> NoData]

\* Call c found the database unavailable (connection lost, query refused).
DbFaulted(c) == \E n \in DOMAIN cache_error[c] : cache_error[c][n] = "unavailable"

\* Whether the database answers call c: it may fail MaxDbFaults calls.
DbOutcomes(c) ==
    IF Cardinality({ b \in Calls \ {c} : DbFaulted(b) }) < MaxDbFaults
    THEN BOOLEAN ELSE {TRUE}

\* get_domain_keywords(domain) up to the await of the cache query.  Calls and
\* domains are interchangeable: calls are numbered in the order they are
\* made, and the first one is for "a.com".
GetDomainKeywords(c, d) ==
    /\ cpc[c] = "idle"
    /\ \A b \in 1..(c - 1) : cpc[b] # "idle"
    /\ c = 1 => d = "a.com"
    /\ cpc' = [cpc EXCEPT ![c] = "cache_read"]
    /\ cdomain' = [cdomain EXCEPT ![c] = d]
    /\ UNCHANGED <<now, crawlVars, keyVars, settings, providers, api_cache, cidx, cdata, tried,
                   cache_error, accepted_at, cresult>>

\* _get_cached_response returns: the live row's response_data, or None when
\* there is none or the query failed (db_ok false).  A hit is returned to the
\* caller, a miss starts the provider loop with its first provider.
CacheRead(c, db_ok) ==
    LET key == CacheKey(cdomain[c])
    IN  /\ cpc[c] = "cache_read"
        /\ IF db_ok /\ HasLiveRow(key)
           THEN /\ cpc' = [cpc EXCEPT ![c] = "returned"]
                /\ cresult' = [cresult EXCEPT ![c] = api_cache[key].response_data]
                /\ UNCHANGED <<cidx, cache_error>>
           ELSE /\ cpc' = [cpc EXCEPT ![c] = "provider"]
                /\ cidx' = [cidx EXCEPT ![c] = 1]
                /\ cache_error' = [cache_error EXCEPT ![c] =
                                       IF db_ok THEN @ ELSE Append(@, "unavailable")]
                /\ UNCHANGED cresult
        /\ UNCHANGED <<now, crawlVars, keyVars, settings, providers, api_cache, cdomain, cdata, tried, accepted_at>>

\* A provider loop that calls the provider again when it raised.
ProviderResponse_RetryOnThrow(c, outcome) ==
    LET p == providers[cidx[c]]
        data == ProviderData(p, outcome, c)
        last == cidx[c] >= Len(providers)
    IN  /\ cpc[c] = "provider"
        /\ outcome \in ProviderOutcomes(p)
        /\ Len(tried[c]) <= Len(providers)
        /\ tried' = [tried EXCEPT ![c] = Append(@, outcome)]
        /\ IF outcome # "throw" /\ Accepts(data)
           THEN /\ cpc' = [cpc EXCEPT ![c] = "cache_write"]
                /\ cdata' = [cdata EXCEPT ![c] = data]
                /\ accepted_at' = [accepted_at EXCEPT ![c] = now]
                /\ UNCHANGED cidx
           ELSE /\ cpc' = [cpc EXCEPT ![c] = IF outcome = "throw" \/ ~last
                                             THEN "provider" ELSE "raised"]
                /\ cidx' = [cidx EXCEPT ![c] = IF outcome = "throw" \/ last
                                               THEN @ ELSE @ + 1]
                /\ UNCHANGED <<cdata, accepted_at>>
        /\ UNCHANGED <<now, crawlVars, keyVars, settings, providers, api_cache, cdomain, cache_error, cresult>>

\* The awaited provider returns or raises: an accepted result goes to
\* _cache_response; otherwise the loop moves to the next provider, and past
\* the last one get_domain_keywords raises "All SERP providers failed or
\* returned no data".
ProviderResponse(c, outcome) ==
    LET p == providers[cidx[c]]
        data == ProviderData(p, outcome, c)
    IN  /\ cpc[c] = "provider"
        /\ outcome \in ProviderOutcomes(p)
        /\ tried' = [tried EXCEPT ![c] = Append(@, outcome)]
        /\ IF outcome # "throw" /\ Accepts(data)
           THEN /\ cpc' = [cpc EXCEPT ![c] = "cache_write"]
                /\ cdata' = [cdata EXCEPT ![c] = data]
                /\ accepted_at' = [accepted_at EXCEPT ![c] = now]
                /\ UNCHANGED cidx
           ELSE /\ cpc' = [cpc EXCEPT ![c] = IF cidx[c] < Len(providers) THEN "provider" ELSE "raised"]
                /\ cidx' = [cidx EXCEPT ![c] = IF cidx[c] < Len(providers) THEN @ + 1 ELSE @]
                /\ UNCHANGED <<cdata, accepted_at>>
        /\ UNCHANGED <<now, crawlVars, keyVars, settings, providers, api_cache, cdomain, cache_error, cresult>>

\* A _cache_response that lets the error of a failed commit through.
CacheWrite_Propagates(c, db_ok) ==
    LET key == CacheKey(cdomain[c])
        failed == ~db_ok \/ key \in DOMAIN api_cache
    IN  /\ cpc[c] = "cache_write"
        /\ IF failed
           THEN /\ cache_error' = [cache_error EXCEPT ![c] =
                                       Append(@, IF db_ok THEN "integrity" ELSE "unavailable")]
                /\ cpc' = [cpc EXCEPT ![c] = "raised"]
                /\ UNCHANGED <<api_cache, cresult>>
           ELSE /\ api_cache' = Put(api_cache, key, APICache(cdata[c].provider, cdata[c]))
                /\ cpc' = [cpc EXCEPT ![c] = "returned"]
                /\ cresult' = [cresult EXCEPT ![c] = cdata[c]]
                /\ UNCHANGED cache_error
        /\ UNCHANGED <<now, crawlVars, keyVars, settings, providers, cdomain, cidx, cdata, tried, accepted_at>>

\* _cache_response commits: the row is inserted unless the database failed
\* (db_ok false) or a row with this cache_key exists (unique=True); both
\* errors are logged and swallowed.  get_domain_keywords returns the data.
CacheWrite(c, db_ok) ==
    LET key == CacheKey(cdomain[c])
    IN  /\ cpc[c] = "cache_write"
        /\ IF ~db_ok
           THEN /\ cache_error' = [cache_error EXCEPT ![c] = Append(@, "unavailable")]
                /\ UNCHANGED api_cache
           ELSE IF key \in DOMAIN api_cache
           THEN /\ cache_error' = [cache_error EXCEPT ![c] = Append(@, "integrity")]
                /\ UNCHANGED api_cache
           ELSE /\ api_cache' = Put(api_cache, key, APICache(cdata[c].provider, cdata[c]))
                /\ UNCHANGED cache_error
        /\ cpc' = [cpc EXCEPT ![c] = "returned"]
        /\ cresult' = [cresult EXCEPT ![c] = cdata[c]]
        /\ UNCHANGED <<now, crawlVars, keyVars, settings, providers, cdomain, cidx, cdata, tried, accepted_at>>

\* models_db.cleanup_expired_data: "delete(APICache).where(expires_at < now)"
cleanup_expired_data ==
    LET kept == { key \in DOMAIN api_cache : ~(api_cache[key].expires_at < now) }
    IN  /\ kept # DOMAIN api_cache
        /\ api_cache' = [key \in kept |-> api_cache[key]]
        /\ UNCHANGED <<now, crawlVars, keyVars, settings, providers, cpc, cdomain, cidx, cdata, tried,
                       cache_error, accepted_at, cresult>>

\* HourStep hours pass.
TickHours ==
    /\ now + HourStep <= MaxHours
    /\ now' = now + HourStep
    /\ UNCHANGED <<crawlVars, serpVars, keyVars, settings>>

-----------------------------------------------------------------------------
(* Specifications *)

\* No discover request is followed outside the specification of the keys.
NoRequests ==
    /\ request = [n \in 1..NumRequests |-> [domain |-> "a.com", country |-> "US",
                                             language |-> "en", location |-> None]]
    /\ request_key = [n \in 1..NumRequests |-> None]

Init == now = 0 /\ InitCrawl /\ InitSerp /\ settings = NoCredentials /\ NoRequests

Next ==
    \/ \E i \in Invocations, e \in {"scrape_competitor_pages", "scrape_domain_pages"} :
          \E us \in CandidateLists(i) : StartCrawl(i, e, us)
    \/ \E i \in Invocations, k \in Slots : Acquire(i, k)
    \/ \E i \in Invocations, k \in Slots, o \in RobotsOutcomes : RobotsResponse(i, k, o)
    \/ \E i \in Invocations, k \in Slots : Wake(i, k)
    \/ \E i \in Invocations, k \in Slots :
          \E o \in (IF k \in Tasks(i) THEN PageOutcomes(Selected(i)[k]) ELSE {}) :
             PageResponse(i, k, o)
    \/ \E i \in Invocations : Finish(i)
    \/ Tick

Spec == Init /\ [][Next]_vars

\* The mixed scenario: one crawl of a list of MixedLists, every GET free to
\* end in any outcome.
NextMixed ==
    \/ \E e \in {"scrape_competitor_pages", "scrape_domain_pages"} :
          \E us \in MixedLists : StartCrawl(1, e, us)
    \/ \E k \in Slots : Acquire(1, k)
    \/ \E k \in Slots, o \in RobotsOutcomes : RobotsResponse(1, k, o)
    \/ \E k \in Slots : Wake(1, k)
    \/ \E k \in Slots, o \in AllPageOutcomes : PageResponse(1, k, o)
    \/ Finish(1)
    \/ Tick

SpecMixed == Init /\ [][NextMixed]_vars

\* The url lists of the sequential scenario: any two urls of the pool.
SequentialLists ==
    { << UrlPool[m], UrlPool[n] >> : m \in 1..Len(UrlPool), n \in 1..Len(UrlPool) }

\* The sequential scenario: one caller fetches two urls one after the other
\* on one WebScraper, every GET free to end in any outcome.
NextSequential ==
    \/ \E us \in SequentialLists : StartCrawl(1, "scrape_url", us)
    \/ \E k \in Slots : Acquire(1, k)
    \/ \E k \in Slots, o \in RobotsOutcomes : RobotsResponse(1, k, o)
    \/ \E k \in Slots : Wake(1, k)
    \/ \E k \in Slots, o \in AllPageOutcomes : PageResponse(1, k, o)
    \/ Finish(1)
    \/ Tick

SpecSequential == Init /\ [][NextSequential]_vars

\* One crawl under the scheduling of the event loop: a task that can run
\* does run, every request gets its response or its timeout, and time
\* passes for the tasks that sleep.
NextLive ==
    \/ \E e \in {"scrape_competitor_pages", "scrape_domain_pages"} :
          \E us \in CandidateLists(1) \cup MixedLists : StartCrawl(1, e, us)
    \/ \E k \in Slots : Acquire(1, k)
    \/ \E k \in Slots, o \in RobotsOutcomes : RobotsResponse(1, k, o)
    \/ \E k \in Slots : Wake(1, k)
    \/ \E k \in Slots :
          \E o \in (IF k \in Tasks(1) THEN PageOutcomes(Selected(1)[k]) ELSE {}) :
             PageResponse(1, k, o)
    \/ Finish(1)
    \/ Tick
    \/ TickWhileAsleep

Fairness ==
    /\ \A k \in Slots : WF_vars(Acquire(1, k))
    /\ \A k \in Slots : WF_vars(\E o \in RobotsOutcomes : RobotsResponse(1, k, o))
    /\ \A k \in Slots : WF_vars(Wake(1, k))
    /\ \A k \in Slots :
          WF_vars(\E o \in (IF k \in Tasks(1) THEN PageOutcomes(Selected(1)[k]) ELSE {}) :
                     PageResponse(1, k, o))
    /\ WF_vars(Finish(1))
    /\ WF_vars(TickWhileAsleep)

SpecLive == Init /\ [][NextLive]_vars /\ Fairness

InitSerpSpec == now = 0 /\ InitCrawl /\ InitSerp /\ NoRequests

NextSerp ==
    \/ \E c \in Calls, d \in Domains : GetDomainKeywords(c, d)
    \/ \E c \in Calls : \E db_ok \in DbOutcomes(c) : CacheRead(c, db_ok)
    \/ \E c \in Calls, o \in {"throw", "empty", "ok"} : ProviderResponse(c, o)
    \/ \E c \in Calls : \E db_ok \in DbOutcomes(c) : CacheWrite(c, db_ok)
    \/ cleanup_expired_data
    \/ TickHours

SpecSerp == InitSerpSpec /\ [][NextSerp]_vars

\* The cache keys of NumRequests discover requests.
InitKeySpec == now = 0 /\ InitCrawl /\ InitSerp /\ settings = NoCredentials /\ InitKeys

NextKey == \E n \in 1..NumRequests : Discover(n)

SpecKey == InitKeySpec /\ [][NextKey]_vars


-----------------------------------------------------------------------------
(* Observations on the crawler *)

\* Tasks of invocation i inside "async with semaphore".
Admitted(i) == { k \in Slots : tpc[i][k] \in {"robots", "sleep", "get"} }

\* Tasks of invocation i awaiting the response to the GET of their page.
Fetching(i) == { k \in Slots : tpc[i][k] = "get" }

\* Tasks of invocation i for which scrape_url was called.
Attempted(i) == { k \in Slots : tpc[i][k] \in {"robots", "sleep", "get", "done"} }

RECURSIVE SumOver(_, _)
SumOver(f, S) ==
    IF S = {} THEN 0
    ELSE LET x == CHOOSE y \in S : TRUE IN f[x] + SumOver(f, S \ {x})

TotalFetching == SumOver([i \in Invocations |-> Cardinality(Fetching(i))], Invocations)

\* In this step task k of invocation i passes the robots check of scrape_url.
PassesRobotsCheck(i, k) ==
    /\ tpc[i][k] \in {"queued", "robots"}
    /\ tpc'[i][k] \notin {"queued", "robots"}
    /\ Parseable(Selected(i)[k])

\* In this step _respect_rate_limit returns to task k of invocation i, which
\* issues the GET of its page.
GrantedTurn(i, k) ==
    /\ tpc[i][k] \in {"queued", "robots", "sleep"}
    /\ tpc'[i][k] = "get"

-----------------------------------------------------------------------------
(* C1: across all crawl invocations running in the process, the number of  *)
(* page fetches in flight never exceeds MAX_CONCURRENT_REQUESTS.           *)
C1_GlobalFetchBound == TotalFetching <= MAX_CONCURRENT_REQUESTS

(* C2: on one WebScraper, the rate limiter never grants a domain two page  *)
(* fetches less than the domain's effective delay apart: when a turn is    *)
(* granted, at least the effective delay has passed since the last turn    *)
(* granted for that domain.                                                *)
C2_MinSpacing ==
    [][\A i \in Invocations, k \in Slots :
         GrantedTurn(i, k) =>
           LET s == ScraperOf(i)
               d == Selected(i)[k].netloc
           IN  d \in DOMAIN last_request_time[s] =>
                 now - last_request_time[s][d] >= EffectiveDelay(domain_delays'[s], d)]_vars


(* C3 (as claimed): for a url the robots policy disallows, scrape_url       *)
(* returns a page with status 0 and error robots_blocked and issues no GET *)
(* of the url.                                                             *)
C3_BlockedStatusZero ==
    [][\A i \in Invocations, k \in Slots :
         LET s == ScraperOf(i)
             u == Selected(i)[k]
         IN  (PassesRobotsCheck(i, k) /\ ~rp_can_fetch(robots_cache'[s][u.netloc], u)) =>
               /\ tpc'[i][k] = "done"
               /\ page'[i][k].status_code = 0
               /\ page'[i][k].error = "robots_blocked"
               /\ page_gets'[i][k] = 0]_vars

(* C3 (amended): for a url the robots policy disallows, scrape_url returns *)
(* at once a page with status 403 and error "Blocked by robots.txt", and   *)
(* the task never issues a GET of the url.                                 *)
C3_BlockedWithoutGet ==
    /\ [][\A i \in Invocations, k \in Slots :
            LET s == ScraperOf(i)
                u == Selected(i)[k]
            IN  (PassesRobotsCheck(i, k) /\ ~rp_can_fetch(robots_cache'[s][u.netloc], u)) =>
                  /\ tpc'[i][k] = "done"
                  /\ page'[i][k] = BlockedPage(u)
                  /\ page_gets'[i][k] = 0]_vars
    /\ [](\A i \in Invocations, k \in Slots :
            page[i][k].error = "Blocked by robots.txt" =>
              page[i][k].status_code = 403 /\ page_gets[i][k] = 0)

\* A task was refused a path that the parsed robots.txt of its host disallows.
C3_Witness ==
    \E i \in Invocations : \E k \in Tasks(i) :
        LET s == ScraperOf(i)
            u == Selected(i)[k]
        IN  /\ tpc[i][k] = "done"
            /\ page[i][k] = BlockedPage(u)
            /\ page_gets[i][k] = 0
            /\ u.netloc \in DOMAIN robots_cache[s]
            /\ robots_cache[s][u.netloc].last_checked
            /\ u.path \in robots_cache[s][u.netloc].disallow

(* C4: when fetching robots.txt fails, the policy is fully permissive      *)
(* (can-fetch holds for every url of the domain, no crawl-delay is set)    *)
(* and the page fetch proceeds to its GET.                                 *)
C4_FailOpen ==
    [][\A i \in Invocations, k \in Slots :
         LET s == ScraperOf(i)
             u == Selected(i)[k]
             d == u.netloc
         IN  (/\ tpc[i][k] = "robots"
              /\ tpc'[i][k] # "robots"
              /\ session[s] = "open"
              /\ robots_cache'[s][d] = RobotFileParser
              /\ domain_delays'[s] = domain_delays[s]) =>
               /\ \A n \in 1..Len(UrlPool) :
                     UrlPool[n].netloc = d => can_fetch(robots_cache'[s][d], UrlPool[n])
               /\ tpc'[i][k] \in {"sleep", "get"}]_vars

(* C5: the result of a crawl accounts for every selected url:              *)
(* len(successful_pages) + len(failed_pages) = min(len(urls), maxPages).   *)
C5_AllAccountedFor ==
    \A i \in Invocations :
        ipc[i] = "done" =>
          Len(crawl_result[i].successful_pages) + Len(crawl_result[i].failed_pages)
            = Min(Len(urls[i]), MAX_PAGES_PER_DOMAIN)

\* A crawl of more urls than the cap returned with pages of both kinds.
C5_Witness ==
    \E i \in Invocations :
        /\ ipc[i] = "done"
        /\ Len(urls[i]) > MAX_PAGES_PER_DOMAIN
        /\ crawl_result[i].successful_pages # << >>
        /\ crawl_result[i].failed_pages # << >>

(* C6: one crawl invocation attempts exactly min(N, maxPages) fetches and  *)
(* never has more than MAX_CONCURRENT_REQUESTS of them in flight.          *)
C6_BoundedInvocation ==
    \A i \in Invocations :
        /\ Cardinality(Admitted(i)) <= MAX_CONCURRENT_REQUESTS
        /\ Cardinality(Attempted(i)) <= Min(Len(urls[i]), MAX_PAGES_PER_DOMAIN)
        /\ ipc[i] = "done" =>
             Cardinality(Attempted(i)) = Min(Len(urls[i]), MAX_PAGES_PER_DOMAIN)

\* More urls than the cap, the semaphore exhausted by fetches in flight and
\* a selected url still waiting for it.
C6_Witness ==
    \E i \in Invocations :
        /\ Len(urls[i]) > MAX_PAGES_PER_DOMAIN
        /\ Cardinality(Fetching(i)) = MAX_CONCURRENT_REQUESTS
        /\ \E k \in Slots : tpc[i][k] = "queued"


-----------------------------------------------------------------------------
(* Observations on the SERP client *)

Finished(c) == cpc[c] \in {"returned", "raised"}

\* Call c missed the cache and has heard from every provider of the list.
TriedAll(c) == Len(tried[c]) = Len(providers)

AllTried(c, outcomes) == \A n \in DOMAIN tried[c] : tried[c][n] \in outcomes

\* In this step _get_cached_response reports a miss to call c although the
\* database answered the query.
MissesCache(c) ==
    /\ cpc[c] = "cache_read"
    /\ cpc'[c] = "provider"
    /\ cache_error'[c] = cache_error[c]

\* In this step _cache_response returns to call c, which returns the
\* provider's data, and the database was available to the commit.
ReturnsProviderData(c) ==
    /\ cpc[c] = "cache_write"
    /\ cpc'[c] = "returned"
    /\ cache_error'[c] # Append(cache_error[c], "unavailable")

(* C7: of two get_domain_keywords calls for the same domain, the second    *)
(* made within the TTL of the result the first one returned, the second is *)
(* served from the cache: it calls no provider.                            *)
C7_SecondServedFromCache ==
    [][\A c \in Calls :
         MissesCache(c) =>
           ~ \E b \in Calls \ {c} :
                 /\ cpc[b] = "returned"
                 /\ cdomain[b] = cdomain[c]
                 /\ accepted_at[b] >= 0
                 /\ ~DbFaulted(b)
                 /\ now < accepted_at[b] + CACHE_EXPIRY_HOURS]_vars

(* C8: when get_domain_keywords returns a provider's result, the cache     *)
(* holds that payload with the provider's name under the key and a read    *)
(* within the TTL returns it, whether no row or an expired row was there   *)
(* for the key before.                                                     *)
C8_WriteThrough ==
    [][\A c \in Calls :
         LET key == CacheKey(cdomain[c])
         IN  (ReturnsProviderData(c) /\ ~HasLiveRow(key)) =>
               /\ key \in DOMAIN api_cache'
               /\ api_cache'[key].response_data = cresult'[c]
               /\ api_cache'[key].provider = cresult'[c].provider
               /\ api_cache'[key].expires_at > now]_vars

(* C9 (as claimed): if every provider returns an empty keyword list        *)
(* without raising, get_domain_keywords returns the last provider's empty  *)
(* result and raises nothing.                                              *)
C9_AllEmptyReturns ==
    \A c \in Calls :
        (Finished(c) /\ TriedAll(c) /\ AllTried(c, {"empty"})) =>
          cpc[c] = "returned" /\ cresult[c].keywords = 0

(* C9 (amended): if every provider returns an empty keyword list without   *)
(* raising, get_domain_keywords raises "All SERP providers failed or       *)
(* returned no data": it returns no result and accepts none for the cache. *)
C9_AllEmptyRaises ==
    \A c \in Calls :
        (TriedAll(c) /\ AllTried(c, {"empty"})) =>
          /\ cpc[c] = "raised"
          /\ cresult[c] = NoData
          /\ accepted_at[c] = -1

\* Both configured providers answered a call with an empty keyword list.
C9_Witness ==
    \E c \in Calls :
        /\ Len(providers) = 2
        /\ cpc[c] = "raised"
        /\ tried[c] = << "empty", "empty" >>

(* C10 (as claimed): on a cache miss get_domain_keywords raises if and     *)
(* only if every provider it tried raised.                                 *)
C10_ErrorIffAllThrew ==
    \A c \in Calls :
        (Finished(c) /\ tried[c] # << >>) =>
          (cpc[c] = "raised" <=> AllTried(c, {"throw"}))

(* C10 (amended): on a cache miss get_domain_keywords raises if and only   *)
(* if no provider it tried returned a non-empty keyword list, that is if   *)
(* each one raised or returned an empty list; otherwise it returns the     *)
(* non-empty result of the last provider it tried.                         *)
C10_ErrorIffNoneAccepted ==
    \A c \in Calls :
        (Finished(c) /\ tried[c] # << >>) =>
          /\ cpc[c] = "raised" <=> AllTried(c, {"throw", "empty"})
          /\ cpc[c] = "raised" => TriedAll(c)
          /\ cpc[c] = "returned" =>
               tried[c][Len(tried[c])] = "ok" /\ cresult[c].keywords > 0

\* A call raised although one of its providers returned without raising.
C10_Witness ==
    \E c \in Calls :
        /\ cpc[c] = "raised"
        /\ \E n \in DOMAIN tried[c] : tried[c][n] = "empty"
        /\ \E n \in DOMAIN tried[c] : tried[c][n] = "throw"

-----------------------------------------------------------------------------
\* The row of the key has expired: "expires_at > now" no longer holds.
Expired(key) == key \in DOMAIN api_cache /\ ~(api_cache[key].expires_at > now)

\* In this step _get_cached_response returns to call c and the database
\* answered the query.
ReadsCache(c) ==
    /\ cpc[c] = "cache_read"
    /\ cpc'[c] # "cache_read"
    /\ cache_error'[c] = cache_error[c]

(* C11: a cache read of a key whose row has expired does what a read of a  *)
(* key that has no row does: it reports a miss (the call goes on to its    *)
(* first provider), returns nothing and leaves the table as it was; the    *)
(* payload of an expired row is never returned.                            *)
C11_ExpiredReadsAsMissing ==
    [][\A c \in Calls :
         LET key == CacheKey(cdomain[c])
         IN  ReadsCache(c) =>
               /\ (key \notin DOMAIN api_cache \/ Expired(key)) =>
                     /\ cpc'[c] = "provider"
                     /\ cidx'[c] = 1
                     /\ cresult'[c] = NoData
                     /\ api_cache' = api_cache
               /\ cpc'[c] = "returned" =>
                     /\ key \in DOMAIN api_cache
                     /\ ~Expired(key)
                     /\ cresult'[c] = api_cache[key].response_data]_vars

\* A call read the cache, found the row of its key expired, and went on to
\* its first provider as it does when there is no row.
C11_Witness ==
    \E c \in Calls :
        /\ cpc[c] = "provider"
        /\ tried[c] = << >>
        /\ cache_error[c] = << >>
        /\ Expired(CacheKey(cdomain[c]))

-----------------------------------------------------------------------------
(* C12: of two fetches made one after the other on one WebScraper to a     *)
(* domain whose effective delay is D, the second is granted its turn at    *)
(* least D after the first: the limiter records the time of every turn it  *)
(* grants, and grants the next turn no sooner than D after that time.      *)
C12_SequentialSpacing ==
    [][\A i \in Invocations, k \in Slots :
         GrantedTurn(i, k) =>
           LET s == ScraperOf(i)
               d == Selected(i)[k].netloc
               D == EffectiveDelay(domain_delays'[s], d)
           IN  /\ last_request_time'[s][d] = now
               /\ \A j \in 1..(k - 1) :
                     (Selected(i)[j].netloc = d /\ page_gets[i][j] = 1) =>
                        /\ tpc[i][j] = "done"
                        /\ now - last_request_time[s][d] >= D]_vars

\* The second of two fetches to a.com (Crawl-delay: 2) has been granted its
\* turn after the first returned, two seconds or more into the run.
C12_Witness ==
    \E i \in Invocations :
        /\ entry[i] = "scrape_url"
        /\ Selected(i)[1].netloc = "a.com" /\ Selected(i)[2].netloc = "a.com"
        /\ tpc[i][1] = "done" /\ page_gets[i][1] = 1
        /\ tpc[i][2] = "get"
        /\ domain_delays[ScraperOf(i)]["a.com"] = 2
        /\ last_request_time[ScraperOf(i)]["a.com"] = now

-----------------------------------------------------------------------------
(* C13: scrape_url never raises: whatever the robots lookup, the wait of   *)
(* the rate limiter, the GET and the extraction end in, the task's result  *)
(* is a ScrapedPage for its url, and a page that stands for a failure      *)
(* (any status but 200) names the failure in its error field.              *)
C13_FailuresReturnedAsData ==
    \A i \in Invocations : \A k \in Tasks(i) :
        tpc[i][k] = "done" =>
          /\ ~page[i][k].raised
          /\ page[i][k].url = Selected(i)[k]
          /\ page[i][k].status_code # 200 => page[i][k].error \notin {None, ""}

-----------------------------------------------------------------------------
\* In this step task k of invocation i ends in a failure: an exception, or a
\* page that is not a successful one.
FailsNow(i, k) ==
    /\ tpc[i][k] # "done"
    /\ tpc'[i][k] = "done"
    /\ ~IsSuccessful(page'[i][k])

(* C14: a page fetch that fails neither aborts the crawl nor touches the   *)
(* other fetches: the crawl goes on running, no other task is cancelled,   *)
(* and when the crawl returns, it returns its dict and every selected url  *)
(* has been attempted and has its entry in the result.                     *)
C14_FailureDoesNotAbort ==
    /\ [][\A i \in Invocations, k \in Slots :
            FailsNow(i, k) =>
              /\ ipc'[i] = "running"
              /\ \A j \in Slots \ {k} :
                    tpc'[i][j] = tpc[i][j] /\ page'[i][j] = page[i][j]]_vars
    /\ [](\A i \in Invocations :
            ipc[i] = "done" =>
              /\ \A k \in Tasks(i) : tpc[i][k] = "done" /\ page[i][k].url = Selected(i)[k]
              /\ Cardinality(Attempted(i)) = Len(Selected(i))
              /\ crawl_result[i] = CrawlResult([k \in Tasks(i) |-> page[i][k]])
              /\ Len(crawl_result[i].successful_pages) + Len(crawl_result[i].failed_pages)
                   = Len(Selected(i)))

\* A crawl returned whose second task raised and whose third url, admitted
\* after that, was scraped.
C14_Witness ==
    \E i \in Invocations :
        /\ ipc[i] = "done"
        /\ Len(Selected(i)) = 3
        /\ page[i][2].raised
        /\ IsSuccessful(page[i][3])
        /\ Len(crawl_result[i].failed_pages) >= 1
        /\ Len(crawl_result[i].successful_pages) >= 1

-----------------------------------------------------------------------------
(* C15: given that every network call gets its response or its timeout,    *)
(* every crawl that was started returns: each of its tasks is admitted by  *)
(* the semaphore and returns, and the crawl returns its result.            *)
C15_EveryCrawlReturns ==
    /\ \A i \in Invocations : (ipc[i] = "running") ~> (ipc[i] = "done")
    /\ \A i \in Invocations, k \in Slots : (tpc[i][k] = "queued") ~> (tpc[i][k] = "done")

\* A crawl returned one of whose tasks had to wait for the semaphore and
\* then for the rate limiter.
C15_Witness ==
    \E i \in Invocations :
        /\ ipc[i] = "done"
        /\ Len(Selected(i)) > MAX_CONCURRENT_REQUESTS
        /\ \E k \in Tasks(i) : k > MAX_CONCURRENT_REQUESTS /\ page_gets[i][k] = 1
        /\ now > MaxTime

-----------------------------------------------------------------------------
\* Both requests have had their cache key computed.
BothKeyed(m, n) == request_key[m] # None /\ request_key[n] # None

(* C16 (as claimed): the cache key is a function of all four parameters:   *)
(* equal parameters give equal keys, and two requests that differ in the   *)
(* domain, the country, the language or the location get different keys.   *)
C16_KeyOfAllFour ==
    \A m \in 1..NumRequests, n \in 1..NumRequests :
        BothKeyed(m, n) =>
          (request_key[m] = request_key[n] <=> request[m] = request[n])

(* C16 (amended): the cache key is a function of the domain alone: two     *)
(* requests get the same key if and only if they are for the same domain,  *)
(* whatever their country, language and location.                          *)
C16_KeyOfDomain ==
    \A m \in 1..NumRequests, n \in 1..NumRequests :
        BothKeyed(m, n) =>
          (request_key[m] = request_key[n] <=> request[m].domain = request[n].domain)

\* Two requests for one domain and two countries got the same key, and two
\* requests for two domains would not.
C16_Witness ==
    \E m \in 1..NumRequests, n \in 1..NumRequests :
        /\ BothKeyed(m, n)
        /\ request[m].domain = request[n].domain
        /\ request[m].country # request[n].country
        /\ request_key[m] = request_key[n]
        /\ request_key[m] = "md5(domain_keywords:" \o request[m].domain \o ")"

-----------------------------------------------------------------------------
(* C17: when a second writer sets a cache key that already has a row, the  *)
(* write is tolerated (the call returns its data) and the row read from    *)
(* then on holds the payload of this last write.                           *)
C17_LastWriteWins ==
    [][\A c \in Calls :
         LET key == CacheKey(cdomain[c])
         IN  (ReturnsProviderData(c) /\ key \in DOMAIN api_cache) =>
               /\ cresult'[c] = cdata[c]
               /\ key \in DOMAIN api_cache'
               /\ api_cache'[key].response_data = cdata[c]]_vars

-----------------------------------------------------------------------------
\* Task j of invocation i waits in the asyncio.sleep of the rate limiter for
\* a domain other than that of task k.
SleepsForOtherDomain(i, j, k) ==
    /\ tpc[i][j] = "sleep"
    /\ Selected(i)[j].netloc # Selected(i)[k].netloc

(* C18: a fetch is never held up by a fetch to another domain: while a     *)
(* task waits in the rate limiter for its domain, a task for another       *)
(* domain that is ready to start can start (the semaphore admits it).      *)
C18_OtherDomainProceeds ==
    \A i \in Invocations, k \in Slots :
        (/\ ipc[i] = "running"
         /\ NextQueued(i, k)
         /\ Parseable(Selected(i)[k])
         /\ \E j \in Tasks(i) : SleepsForOtherDomain(i, j, k)) =>
           SemaphoreFree(i)

-----------------------------------------------------------------------------
\* Some WebScraper of the process holds a policy for domain d.
PolicyStored(d) == \E s \in Scrapers : d \in DOMAIN robots_cache[s]

\* Task k of invocation i gets the response to its GET of robots.txt in this
\* step: _get_robots_txt builds a parser and stores it in robots_cache.
BuildsPolicy(i, k) == tpc[i][k] = "robots" /\ tpc'[i][k] # "robots"

(* C19: the robots policy of a domain is built at most once: a policy is   *)
(* built and stored only for a domain that has no stored policy, so a      *)
(* stored policy is never replaced and its robots.txt never fetched again. *)
C19_PolicyBuiltOnce ==
    [][\A i \in Invocations, k \in Slots :
          BuildsPolicy(i, k) => ~PolicyStored(Selected(i)[k].netloc)]_vars

-----------------------------------------------------------------------------
\* Call c has called a provider: it missed the cache.
CalledProviders(c) == tried[c] # << >>

\* Call c holds a result it accepted from a provider.
HoldsAccepted(c) == CalledProviders(c) /\ cpc[c] \in {"cache_write", "returned"}

(* C20: on a cache miss the providers one get_domain_keywords call has     *)
(* called are the first providers of the list, in order and each once      *)
(* (the n-th call goes to the n-th provider); every one but the last       *)
(* raised or returned an empty list; the call stops at the first provider  *)
(* that returns a non-empty keyword list, and what it returns is that      *)
(* provider's result.                                                      *)
C20_PrefixUntilFirstAccepted ==
    \A c \in Calls :
        /\ Len(tried[c]) <= Len(providers)
        /\ cpc[c] = "provider" => cidx[c] = Len(tried[c]) + 1
        /\ \A n \in 1..(Len(tried[c]) - 1) : tried[c][n] \in {"throw", "empty"}
        /\ HoldsAccepted(c) =>
              /\ tried[c][Len(tried[c])] = "ok"
              /\ cidx[c] = Len(tried[c])
              /\ cdata[c].provider = providers[Len(tried[c])]
              /\ cdata[c].keywords > 0
        /\ (CalledProviders(c) /\ cpc[c] = "returned") => cresult[c] = cdata[c]

\* With two providers configured, one call was answered by the second after
\* the first raised, and one by the first, the second never called.
C20_Witness ==
    \E b \in Calls, c \in Calls :
        /\ Len(providers) = 2
        /\ cpc[b] = "returned" /\ tried[b] = << "throw", "ok" >>
        /\ cresult[b].provider = providers[2]
        /\ cpc[c] = "returned" /\ tried[c] = << "ok" >>
        /\ cresult[c].provider = providers[1]

-----------------------------------------------------------------------------
\* The number of urls a crawl of the list us may fetch.
NumSelected(us) == Min(Len(us), MAX_PAGES_PER_DOMAIN)

\* The urls of the sequence seq come in the order they have in the list us.
InOrderOf(seq, us) ==
    \A m \in DOMAIN seq, n \in DOMAIN seq :
        m < n => \E a \in DOMAIN us, b \in DOMAIN us :
                    a < b /\ us[a] = seq[m] /\ us[b] = seq[n]

(* C21: a crawl fetches the first maxPages urls of the list it is given,   *)
(* in the caller's order: no url beyond that prefix gets a task or a GET,  *)
(* the task of position k returns the page of the k-th url, and the        *)
(* entries of successful_pages and of failed_pages come in the order of    *)
(* the selected urls.                                                      *)
C21_FirstMaxPagesInOrder ==
    \A i \in Invocations :
        /\ \A k \in Slots :
              k > NumSelected(urls[i]) => tpc[i][k] = "none" /\ page_gets[i][k] = 0
        /\ \A k \in 1..NumSelected(urls[i]) :
              tpc[i][k] = "done" => page[i][k].url = urls[i][k]
        /\ ipc[i] = "done" =>
              LET first == SubSeq(urls[i], 1, NumSelected(urls[i]))
                  failed == [n \in DOMAIN crawl_result[i].failed_pages |->
                                crawl_result[i].failed_pages[n].url]
              IN  /\ InOrderOf(crawl_result[i].successful_pages, first)
                  /\ InOrderOf(failed, first)
                  /\ \A k \in DOMAIN first :
                        \/ \E n \in DOMAIN failed : failed[n] = first[k]
                        \/ \E n \in DOMAIN crawl_result[i].successful_pages :
                              crawl_result[i].successful_pages[n] = first[k]

\* A crawl of four urls returned: the fourth was never fetched, the first is
\* the successful page, the second and the third failed, in that order.
C21_Witness ==
    /\ ipc[1] = "done"
    /\ Len(urls[1]) = MaxUrls
    /\ tpc[1][MaxUrls] = "none"
    /\ crawl_result[1].successful_pages = << urls[1][1] >>
    /\ Len(crawl_result[1].failed_pages) = 2
    /\ crawl_result[1].failed_pages[1].url = urls[1][2]
    /\ crawl_result[1].failed_pages[2].url = urls[1][3]

-----------------------------------------------------------------------------
\* The url u has an entry in successful_pages / failed_pages of the result.
InSuccessful(res, u) == \E n \in DOMAIN res.successful_pages : res.successful_pages[n] = u

InFailed(res, u) == \E n \in DOMAIN res.failed_pages : res.failed_pages[n].url = u

(* C22: in the result of a crawl a page is in successful_pages if and only *)
(* if its status is 200 and its content is not empty; every other outcome  *)
(* (another status, empty content, blocked by robots.txt, an exception     *)
(* that left scrape_url) is in failed_pages, and no page is in both.       *)
C22_SuccessIffOkWithContent ==
    \A i \in Invocations :
        ipc[i] = "done" =>
          \A k \in Tasks(i) :
              LET pg == page[i][k]
                  u == Selected(i)[k]
                  ok == pg.status_code = 200 /\ pg.content # ""
              IN  /\ InSuccessful(crawl_result[i], u) <=> ok
                  /\ InFailed(crawl_result[i], u) <=> ~ok

\* A crawl returned with a successful page, a page of status 200 without
\* content and an exception that left scrape_url.
C22_Witness ==
    /\ ipc[1] = "done"
    /\ \E k \in Tasks(1) : InSuccessful(crawl_result[1], Selected(1)[k])
    /\ \E k \in Tasks(1) :
          /\ page[1][k].status_code = 200 /\ page[1][k].content = ""
          /\ InFailed(crawl_result[1], Selected(1)[k])
    /\ \E k \in Tasks(1) : page[1][k].raised /\ InFailed(crawl_result[1], Selected(1)[k])

-----------------------------------------------------------------------------
\* The tasks of invocation i whose page the result counts as successful.
SuccessfulTasks(i) ==
    { k \in Tasks(i) : page[i][k].status_code = 200 /\ page[i][k].content # "" }

\* The tasks of the set S in increasing order.
Ascending(S) ==
    CHOOSE seq \in [1..Cardinality(S) -> S] :
        \A m \in DOMAIN seq, n \in DOMAIN seq : m < n => seq[m] < seq[n]

\* The contents of up to three pages joined by single spaces.
SpaceJoined(i, ks) ==
    CASE Len(ks) = 0 -> ""
      [] Len(ks) = 1 -> page[i][ks[1]].content
      [] Len(ks) = 2 -> page[i][ks[1]].content \o " " \o page[i][ks[2]].content
      [] OTHER       -> page[i][ks[1]].content \o " " \o page[i][ks[2]].content
                          \o " " \o page[i][ks[3]].content

(* C23: in the result of a crawl, content is the content of the successful *)
(* pages, in order, joined by the separator; extracted_keywords holds each *)
(* keyword of a successful page once and nothing else; failed pages add    *)
(* nothing to either; total_pages_scraped is len(successful_pages).        *)
C23_AggregatesOfSuccessfulPages ==
    \A i \in Invocations :
        ipc[i] = "done" =>
          LET res == crawl_result[i]
              kws == res.extracted_keywords
          IN  /\ res.content = SpaceJoined(i, Ascending(SuccessfulTasks(i)))
              /\ \A m \in DOMAIN kws, n \in DOMAIN kws : m # n => kws[m] # kws[n]
              /\ \A n \in DOMAIN kws :
                    \E k \in SuccessfulTasks(i) :
                       \E m \in DOMAIN page[i][k].keywords : page[i][k].keywords[m] = kws[n]
              /\ \A k \in SuccessfulTasks(i) :
                    \A m \in DOMAIN page[i][k].keywords :
                       \E n \in DOMAIN kws : kws[n] = page[i][k].keywords[m]
              /\ res.total_pages_scraped = Len(res.successful_pages)
              /\ res.total_pages_scraped = Cardinality(SuccessfulTasks(i))

\* A crawl returned two successful pages that share a keyword and a failed
\* page that has keywords of its own.
C23_Witness ==
    /\ ipc[1] = "done"
    /\ Cardinality(SuccessfulTasks(1)) = 2
    /\ Len(crawl_result[1].extracted_keywords) = 3
    /\ \E k \in Tasks(1) \ SuccessfulTasks(1) : page[1][k].keywords # << >>

-----------------------------------------------------------------------------
\* In this step _respect_rate_limit returns to task k of invocation i: the
\* task issues its GET, or finds its session closed and raises.
RateLimitReturns(i, k) ==
    /\ tpc[i][k] \in {"queued", "robots", "sleep"}
    /\ \/ tpc'[i][k] = "get"
       \/ tpc'[i][k] = "done" /\ page'[i][k] = ExceptionPage(Selected(i)[k])

\* In this step task k of invocation i starts to wait in _respect_rate_limit.
StartsToWait(i, k) == tpc[i][k] # "sleep" /\ tpc'[i][k] = "sleep"

(* C24: the rate limiter records the timestamp of a domain when the turn   *)
(* is granted, after any wait, not when it is called: when                 *)
(* _respect_rate_limit returns at time t for domain d,                     *)
(* last_request_time[d] is t, and a caller that starts to wait leaves      *)
(* last_request_time as it is.                                             *)
C24_StampedWhenGranted ==
    [][\A i \in Invocations, k \in Slots :
         LET s == ScraperOf(i)
         IN  /\ RateLimitReturns(i, k) =>
                  /\ Selected(i)[k].netloc \in DOMAIN last_request_time'[s]
                  /\ last_request_time'[s][Selected(i)[k].netloc] = now
             /\ StartsToWait(i, k) => last_request_time'[s] = last_request_time[s]]_vars

\* A task that waited in the rate limiter has its GET in flight; the
\* timestamp of its domain is the time its wait ended, after its deadline.
C24_Witness ==
    \E i \in Invocations : \E k \in Tasks(i) :
        /\ tpc[i][k] = "get"
        /\ wake_at[i][k] > 0
        /\ now >= wake_at[i][k]
        /\ last_request_time[ScraperOf(i)][Selected(i)[k].netloc] = now

-----------------------------------------------------------------------------
\* In this step task k of invocation i, allowed by robots.txt, calls
\* _respect_rate_limit, which suspends it or returns at once.
CallsRateLimit(i, k) ==
    /\ tpc[i][k] \in {"queued", "robots"}
    /\ \/ tpc'[i][k] \in {"sleep", "get"}
       \/ tpc'[i][k] = "done" /\ page'[i][k] = ExceptionPage(Selected(i)[k])

(* C25: _respect_rate_limit takes as delay the crawl-delay robots.txt gave *)
(* for the domain, or 1/REQUESTS_PER_SECOND when it gave none, and         *)
(* suspends the caller for max(0, delay - elapsed), elapsed being the time *)
(* since the last recorded request to the domain; with no recorded request *)
(* or with elapsed >= delay it returns without suspending.                 *)
C25_WaitsForTheRemainder ==
    [][\A i \in Invocations, k \in Slots :
         CallsRateLimit(i, k) =>
           LET s == ScraperOf(i)
               d == Selected(i)[k].netloc
               lrt == last_request_time[s]
               delay == IF d \in DOMAIN domain_delays'[s]
                        THEN RobotsTxt(d).crawl_delay
                        ELSE 1 \div REQUESTS_PER_SECOND
           IN  /\ d \in DOMAIN domain_delays'[s] =>
                    RobotsTxt(d).has_delay /\ domain_delays'[s][d] = RobotsTxt(d).crawl_delay
               /\ IF d \in DOMAIN lrt /\ now - lrt[d] < delay
                  THEN /\ tpc'[i][k] = "sleep"
                       /\ wake_at'[i][k] - now = delay - (now - lrt[d])
                  ELSE tpc'[i][k] # "sleep"]_vars

\* One second after the last request to a.com (Crawl-delay: 2) a task for
\* a.com waits for the one second that is left.
C25_Witness ==
    \E i \in Invocations : \E k \in Tasks(i) :
        LET s == ScraperOf(i)
            d == Selected(i)[k].netloc
        IN  /\ tpc[i][k] = "sleep"
            /\ d \in DOMAIN domain_delays[s] /\ domain_delays[s][d] = 2
            /\ now - last_request_time[s][d] = 1
            /\ wake_at[i][k] = now + 1

-----------------------------------------------------------------------------
\* The slots of its semaphore that the tasks of invocation i hold.
SlotsHeld(i) == IF ipc[i] = "idle" THEN 0 ELSE Capacity(entry[i]) - sem[i]

(* C26: every semaphore slot a task acquires is released when its          *)
(* scrape_url ends, with a page, an error page or an exception: the slots  *)
(* held are those of the tasks inside scrape_url, never fewer than 0 nor   *)
(* more than the capacity, and none is held once the invocation returned.  *)
C26_SlotsReleased ==
    \A i \in Invocations :
        /\ SlotsHeld(i) >= 0
        /\ sem[i] >= 0
        /\ SlotsHeld(i) = Cardinality({ k \in Slots : tpc[i][k] \in {"robots", "sleep", "get"} })
        /\ ipc[i] # "running" => SlotsHeld(i) = 0

\* No crawl is running: one returned with a successful page and failed
\* pages, the other with the exception that left its scrape_url.
C26_Witness ==
    /\ ipc[1] = "done" /\ ipc[2] = "done"
    /\ crawl_result[1].successful_pages # << >>
    /\ crawl_result[1].failed_pages # << >>
    /\ page[2][1].raised
    /\ sem[1] = MAX_CONCURRENT_REQUESTS /\ sem[2] = MAX_CONCURRENT_REQUESTS

-----------------------------------------------------------------------------
\* In this step scrape_url returns to task k of invocation i the page of a
\* url robots.txt does not allow.
IsBlocked(i, k) ==
    /\ tpc[i][k] # "done"
    /\ tpc'[i][k] = "done"
    /\ page'[i][k] = BlockedPage(Selected(i)[k])

\* Task j of invocation h, on the WebScraper s, took a turn for domain d.
TookTurn(h, j, s, d) ==
    /\ h \in Invocations /\ j \in Tasks(h)
    /\ ScraperOf(h) = s
    /\ Selected(h)[j].netloc = d
    /\ tpc[h][j] \in {"get", "done"}
    /\ ~page[h][j].raised
    /\ page[h][j] # BlockedPage(Selected(h)[j])

(* C27: a fetch robots.txt rejects leaves the rate limiter alone: it never *)
(* waits in it and last_request_time is the same after it as before, so a  *)
(* later fetch to the domain waits only for a fetch that took a turn.      *)
C27_BlockedLeavesRateLimiter ==
    [][\A i \in Invocations, k \in Slots :
         /\ IsBlocked(i, k) =>
              /\ last_request_time' = last_request_time
              /\ tpc[i][k] \in {"queued", "robots"}
              /\ wake_at'[i][k] = 0
         /\ StartsToWait(i, k) =>
              \E h \in Invocations, j \in Slots :
                 /\ <<h, j>> # <<i, k>>
                 /\ TookTurn(h, j, ScraperOf(i), Selected(i)[k].netloc)]_vars

\* A fetch to a.com was rejected by the parsed robots.txt and the rate
\* limiter has no timestamp for a.com.
C27_Witness ==
    \E i \in Invocations : \E k \in Tasks(i) :
        /\ tpc[i][k] = "done"
        /\ page[i][k] = BlockedPage(Selected(i)[k])
        /\ Selected(i)[k].netloc = "a.com"
        /\ robots_cache[ScraperOf(i)]["a.com"].last_checked
        /\ "a.com" \notin DOMAIN last_request_time[ScraperOf(i)]

-----------------------------------------------------------------------------
\* In this step the row of the key is inserted into api_cache or changed.
WritesRow(key) ==
    /\ key \in DOMAIN api_cache'
    /\ key \in DOMAIN api_cache => api_cache'[key] # api_cache[key]

(* C28: only accepted results are cached: every row of api_cache holds a   *)
(* result with a non-empty keyword list under the name of the provider     *)
(* that returned it, and a row is written only by a call that accepted     *)
(* that result from a provider that did not raise.                         *)
C28_OnlyAcceptedCached ==
    /\ [](\A key \in DOMAIN api_cache :
             /\ api_cache[key].response_data.keywords > 0
             /\ api_cache[key].provider = api_cache[key].response_data.provider
             /\ \E n \in DOMAIN providers : providers[n] = api_cache[key].provider)
    /\ [][\A key \in DOMAIN api_cache' :
            WritesRow(key) =>
              \E c \in Calls :
                 /\ cpc[c] = "cache_write" /\ cpc'[c] = "returned"
                 /\ key = generate_cache_key("domain_keywords", << cdomain[c] >>)
                 /\ tried[c][Len(tried[c])] = "ok"
                 /\ cdata[c].keywords > 0
                 /\ api_cache'[key].response_data = cdata[c]]_vars

\* One call raised after an empty result and an exception and left no row
\* for its domain; another call's accepted result is in the cache.
C28_Witness ==
    \E b \in Calls, c \in Calls :
        /\ cpc[c] = "raised"
        /\ tried[c] = << "empty", "throw" >>
        /\ generate_cache_key("domain_keywords", << cdomain[c] >>) \notin DOMAIN api_cache
        /\ cpc[b] = "returned"
        /\ generate_cache_key("domain_keywords", << cdomain[b] >>) \in DOMAIN api_cache
        /\ api_cache[generate_cache_key("domain_keywords", << cdomain[b] >>)].response_data
              = cresult[b]

-----------------------------------------------------------------------------
\* In this step a cache operation of call c fails (the query or the commit
\* raises inside _get_cached_response or _cache_response).
CacheFails(c) == cache_error'[c] # cache_error[c]

(* C29: a failure of the cache never fails get_domain_keywords: a read     *)
(* that fails counts as a miss and the providers are tried from the first; *)
(* a write that fails is swallowed, the accepted result is returned and    *)
(* the cache is left as it was; a call raises only when no provider gave   *)
(* it a result.                                                            *)
C29_CacheFailuresTolerated ==
    /\ [][\A c \in Calls :
            CacheFails(c) =>
              /\ api_cache' = api_cache
              /\ cpc[c] = "cache_read" =>
                    cpc'[c] = "provider" /\ cidx'[c] = 1 /\ tried'[c] = << >>
              /\ cpc[c] = "cache_write" =>
                    /\ cpc'[c] = "returned"
                    /\ cresult'[c] = cdata[c]
                    /\ cresult'[c].keywords > 0]_vars
    /\ [](\A c \in Calls :
             cpc[c] = "raised" =>
               /\ Len(tried[c]) = Len(providers)
               /\ \A n \in DOMAIN tried[c] : tried[c][n] # "ok")

\* A call whose cache read and cache write both failed returned the result
\* of its provider; the cache has no row for its domain.
C29_Witness ==
    \E c \in Calls :
        /\ cpc[c] = "returned"
        /\ cache_error[c] = << "unavailable", "unavailable" >>
        /\ cresult[c].keywords > 0
        /\ generate_cache_key("domain_keywords", << cdomain[c] >>) \notin DOMAIN api_cache

-----------------------------------------------------------------------------
\* The provider p is in the list of the client.
Enabled(p) == \E n \in DOMAIN providers : providers[n] = p

\* The environment holds the credentials the provider needs: key and engine
\* id for google_cse, the key for serpapi.
HasCredentials(p) ==
    CASE p = "google_cse" -> /\ settings.GOOGLE_CSE_API_KEY \notin {None, ""}
                             /\ settings.GOOGLE_CSE_CX \notin {None, ""}
      [] p = "serpapi"    -> settings.SERPAPI_KEY \notin {None, ""}
      [] OTHER            -> FALSE

(* C30: the provider list is never empty and never changes, holds each     *)
(* provider at most once with google_cse ahead of serpapi, and holds a     *)
(* real provider exactly when its credentials are configured and the mock  *)
(* provider exactly when no real provider's are; so with real providers    *)
(* configured no call gets mock data, and a call all of whose providers    *)
(* fail raises.                                                            *)
C30_MockOnlyWithoutCredentials ==
    /\ [](/\ providers # << >>
          /\ \A m \in DOMAIN providers, n \in DOMAIN providers :
                m < n => providers[m] = "google_cse" /\ providers[n] = "serpapi"
          /\ \A p \in {"google_cse", "serpapi"} : Enabled(p) <=> HasCredentials(p)
          /\ Enabled("mock") <=> ~(HasCredentials("google_cse") \/ HasCredentials("serpapi"))
          /\ \A c \in Calls :
                /\ (HasCredentials("google_cse") \/ HasCredentials("serpapi")) =>
                      cdata[c].provider # "mock" /\ cresult[c].provider # "mock"
                /\ (Len(tried[c]) = Len(providers)
                       /\ \A n \in DOMAIN tried[c] : tried[c][n] # "ok") =>
                      cpc[c] = "raised" /\ cresult[c] = NoData)
    /\ [][providers' = providers]_vars

\* With both real providers configured, a call whose two providers raised
\* has raised without any mock data.
C30_Witness ==
    \E c \in Calls :
        /\ providers = << "google_cse", "serpapi" >>
        /\ tried[c] = << "throw", "throw" >>
        /\ cpc[c] = "raised"
        /\ cresult[c] = NoData

=============================================================================
